---- MODULE Spec2Model ----
(***************************************************************************)
(* A model of src/main.py: the watermark preview widget (PreviewWidget),   *)
(* the main window's settings controls and their signal wiring, the        *)
(* template store in the templates directory, and the batch export         *)
(* (process_images / apply_watermark).                                     *)
(*                                                                         *)
(* Numbers.  Python floats are modelled in fixed point:                    *)
(*   - an anchor coordinate is an integer count of 1/NormOne               *)
(*     (NormOne = 1.0), chosen so that every display width and height of   *)
(*     the model divides pointer offsets exactly;                          *)
(*   - a scale is an integer count of 1/ScaleOne (ScaleOne = 1.0), so the  *)
(*     1e-6 threshold of set_scale is 2 units;                             *)
(*   - the preview opacity is a count of 1/OpacityOne (OpacityOne = 1.0).  *)
(* Texts, names and paths are sequences of tokens (one token per           *)
(* character or per path component), so strip, splitext, join and          *)
(* normpath are computed, not assumed.                                     *)
(***************************************************************************)
EXTENDS Integers, Sequences, FiniteSets, TLC

VARIABLES
    ui,              \* the widgets' values and the PreviewWidget's fields
    list_widget,     \* ImageListWidget: the item paths, in order
    templates_combo, \* the template combo box: items and current index
    files,           \* the templates directory: file name -> content
    outputs,         \* files the export has written (path -> source path)
    run,             \* process_images' position, locals and failure list
    session,         \* "running" | "closed" (after closeEvent)
    ev,              \* history: the last event handled
    saved,           \* history: file -> the settings held when the program last wrote it,
                     \*          and whether save_template wrote it (until it is deleted)
    render           \* the last apply_watermark call: arguments and results

vars == <<ui, list_widget, templates_combo, files, outputs, run, session, ev, saved, render>>

----------------------------------------------------------------------------
(* Units and program constants *)

NormOne == 8 * 100          \* anchor 1.0
ScaleOne == 2 * 1000000     \* scale 1.0 (TLC's integers are 32 bits wide)
OpacityOne == 100           \* preview opacity 1.0, in units of one percent

ScaleMin == ScaleOne \div 2         \* 0.5, set_scale
ScaleMax == 3 * ScaleOne            \* 3.0, set_scale
ScaleEps == ScaleOne \div 1000000   \* 1e-6, set_scale
PercentMin == 50                    \* size_slider.setRange(50, 300)
PercentMax == 300
OpacityMin == 0                     \* opacity_slider.setRange(0, 100)
OpacityMax == 100
AlphaMax == 255

\* The longest chain of valueChanged / scaleChanged emissions one event may
\* start before the model cuts it (and records the cut in ui.overflow).
MaxSignals == 8

----------------------------------------------------------------------------
(* Arithmetic helpers *)

Min(a, b) == IF a <= b THEN a ELSE b
Max(a, b) == IF a >= b THEN a ELSE b
Abs(a) == IF a >= 0 THEN a ELSE -a

\* max(lo, min(hi, v)), the clamp idiom of set_norm_pos / set_scale
Clamp(v, lo, hi) == Max(lo, Min(hi, v))

\* floor division for any sign of n (d > 0); TLC's \div already floors
FloorDiv(n, d) == n \div d

\* Python's int(): truncation toward zero of the rational n / d (d > 0)
TruncDiv(n, d) == IF n >= 0 THEN n \div d ELSE -((-n) \div d)

\* floor(a * b / d) for a, b >= 0 and d > 0, without the product a * b
MulDiv(a, b, d) == a * (b \div d) + (a * (b % d)) \div d

\* Python's round(): round half to even of the rational n / d (d > 0)
RoundHalfEven(n, d) ==
    LET q == n \div d
        r == n - q * d
    IN  IF 2 * r < d THEN q
        ELSE IF 2 * r > d THEN q + 1
        ELSE IF q % 2 = 0 THEN q ELSE q + 1

----------------------------------------------------------------------------
(* Texts: sequences of one-character tokens *)

IsSpace(c) == c = " "

RECURSIVE LStrip(_)
LStrip(t) == IF t # <<>> /\ IsSpace(Head(t)) THEN LStrip(Tail(t)) ELSE t

RECURSIVE RStrip(_)
RStrip(t) ==
    IF t # <<>> /\ IsSpace(t[Len(t)]) THEN RStrip(SubSeq(t, 1, Len(t) - 1)) ELSE t

\* str.strip()
Strip(t) == RStrip(LStrip(t))

----------------------------------------------------------------------------
(* PreviewWidget: setters *)

\* QSlider / QSpinBox keep their value inside the range given to setRange
OpacityRange(v) == Clamp(v, OpacityMin, OpacityMax)
PercentRange(v) == Clamp(v, PercentMin, PercentMax)

set_text(s, text) == [s EXCEPT !.wm_text = text]

set_opacity_percent(s, percent) ==
    [s EXCEPT !.opacity = Clamp(percent * (OpacityOne \div 100), 0, OpacityOne)]

set_norm_pos_unclamped(s, x, y) == [s EXCEPT !.norm_x = x, !.norm_y = y]

set_norm_pos(s, x, y) ==
    [s EXCEPT !.norm_x = Clamp(x, 0, NormOne), !.norm_y = Clamp(y, 0, NormOne)]

set_image(s, pix) == [s EXCEPT !.pixmap = pix]

ScaleToPercent_truncated(scale) == (scale * 100) \div ScaleOne

ScaleToPercent_plus_one(scale) == RoundHalfEven(scale * 100, ScaleOne) + 1

\* int(round(scale * 100))
ScaleToPercent(scale) == RoundHalfEven(scale * 100, ScaleOne)

\* One emission of a signal: counted, and cut when the chain is too long.
Emit(s) == [s EXCEPT !.sig = @ + 1]
Cut(s) == [s EXCEPT !.overflow = TRUE]

RECURSIVE size_slider_setValue(_, _)
RECURSIVE size_spin_setValue(_, _)
RECURSIVE on_font_scale_change(_, _, _)
RECURSIVE on_preview_scale_changed(_, _)
RECURSIVE set_scale_percent(_, _)
RECURSIVE set_scale(_, _)

\* QSlider.setValue: clamps into the range, emits valueChanged on a change
size_slider_setValue(s, v) ==
    LET val == PercentRange(v) IN
    IF val = s.size_slider THEN s
    ELSE LET s1 == Emit([s EXCEPT !.size_slider = val]) IN
         IF s.sig >= MaxSignals THEN Cut(s1)
         ELSE on_font_scale_change(s1, val, "size_slider")

\* QSpinBox.setValue: clamps into the range, emits valueChanged on a change
size_spin_setValue(s, v) ==
    LET val == PercentRange(v) IN
    IF val = s.size_spin THEN s
    ELSE LET s1 == Emit([s EXCEPT !.size_spin = val]) IN
         IF s.sig >= MaxSignals THEN Cut(s1)
         ELSE on_font_scale_change(s1, val, "size_spin")

on_font_scale_change(s, val, sender) ==
    LET s1 == IF sender = "size_slider" /\ s.size_spin # val
                  THEN size_spin_setValue(s, val)
              ELSE IF sender = "size_spin" /\ s.size_slider # val
                  THEN size_slider_setValue(s, val)
              ELSE s
    IN  set_scale_percent(s1, val)

on_preview_scale_changed(s, scale) ==
    LET percent == ScaleToPercent(scale)
        s1 == IF s.size_slider # percent THEN size_slider_setValue(s, percent) ELSE s
    IN  IF s1.size_spin # percent THEN size_spin_setValue(s1, percent) ELSE s1

set_scale_percent(s, percent) ==
    LET new_scale == Clamp(percent * (ScaleOne \div 100), ScaleMin, ScaleMax) IN
    IF Abs(new_scale - s.scale) > ScaleEps
    THEN LET s1 == Emit([s EXCEPT !.scale = new_scale]) IN
         IF s.sig >= MaxSignals THEN Cut(s1)
         ELSE on_preview_scale_changed(s1, new_scale)
    ELSE s

set_scale_unclamped(s, scale) ==
    IF Abs(scale - s.scale) > ScaleEps
    THEN LET s1 == Emit([s EXCEPT !.scale = scale]) IN
         IF s.sig >= MaxSignals THEN Cut(s1)
         ELSE on_preview_scale_changed(s1, scale)
    ELSE s

set_scale(s, scale) ==
    LET new_scale == Clamp(scale, ScaleMin, ScaleMax) IN
    IF Abs(new_scale - s.scale) > ScaleEps
    THEN LET s1 == Emit([s EXCEPT !.scale = new_scale]) IN
         IF s.sig >= MaxSignals THEN Cut(s1)
         ELSE on_preview_scale_changed(s1, new_scale)
    ELSE s

\* opacity_slider.setValue and its valueChanged handler, on_opacity_change
opacity_slider_setValue(s, v) ==
    LET val == OpacityRange(v) IN
    IF val = s.opacity_slider THEN s
    ELSE set_opacity_percent([s EXCEPT !.opacity_slider = val], val)

\* input_text.setText and its textChanged handler, on_text_change
input_text_setText(s, t) ==
    IF t = s.input_text THEN s
    ELSE set_text([s EXCEPT !.input_text = t], t)

set_preview_pos_swapped(s, nx, ny) == set_norm_pos(s, ny, nx)

set_preview_pos(s, nx, ny) == set_norm_pos(s, nx, ny)

----------------------------------------------------------------------------
(* PreviewWidget: display geometry and font metrics *)

\* self.width(), self.height(): the preview surface
WidgetSize == [w |-> 800, h |-> 800]

NullPixmap == [w |-> 0, h |-> 0]
isNull(pix) == pix.w = 0 \/ pix.h = 0

\* QRect.right() and QRect.bottom() are left + width - 1 and top + height - 1
RectRight(r) == r.left + r.width - 1
RectBottom(r) == r.top + r.height - 1
RectContains(r, px, py) ==
    /\ r.width > 0 /\ r.height > 0
    /\ r.left <= px /\ px <= RectRight(r)
    /\ r.top <= py /\ py <= RectBottom(r)

\* scale = min(rw / pw, rh / ph); dw = int(pw * scale); dh = int(ph * scale)
image_draw_rect(s) ==
    IF isNull(s.pixmap)
    THEN [left |-> 0, top |-> 0, width |-> WidgetSize.w, height |-> WidgetSize.h]
    ELSE LET rw == WidgetSize.w
             rh == WidgetSize.h
             pw == s.pixmap.w
             ph == s.pixmap.h
             byWidth == rw * ph <= rh * pw      \* rw / pw <= rh / ph
             dw == IF byWidth THEN TruncDiv(pw * rw, pw) ELSE TruncDiv(pw * rh, ph)
             dh == IF byWidth THEN TruncDiv(ph * rw, pw) ELSE TruncDiv(ph * rh, ph)
             x == FloorDiv(rw - dw, 2)
             y == FloorDiv(rh - dh, 2)
         IN  [left |-> x, top |-> y, width |-> dw, height |-> dh]

\* Font sizes are counted in 1/ScaleOne of a point.
\* base = max(12.0, disp_w / 20.0)
BaseFontSize(disp_w) == MulDiv(Max(12 * 20, disp_w), ScaleOne, 20)

\* size = max(8.0, base * self._scale)
font_for_display(s, disp_w) ==
    Max(8 * ScaleOne, MulDiv(Max(12 * 20, disp_w), s.scale, 20))

\* QFontMetrics of the toolkit's default font at a point size: every
\* character advances half the size, a line is as high as the size.
horizontalAdvance(text, size) == (Len(text) * size) \div (2 * ScaleOne)
fontHeight(size) == size \div ScaleOne

\* The text's top-left corner as paintEvent and mousePressEvent compute it
\* (anchor, then the margin clamp), and the resize handle's rectangle.
TextBox(s) ==
    LET img_rect == image_draw_rect(s)
        disp_w == img_rect.width
        disp_h == img_rect.height
        font == font_for_display(s, disp_w)
        text_w == horizontalAdvance(s.wm_text, font)
        text_h == fontHeight(font)
        x0 == TruncDiv(img_rect.left * NormOne + s.norm_x * disp_w, NormOne)
        y0 == TruncDiv(img_rect.top * NormOne + s.norm_y * disp_h, NormOne)
        margin == Max(6, FloorDiv(disp_w, 100))
        x == Max(img_rect.left + margin, Min(x0, RectRight(img_rect) - text_w - margin))
        y == Max(img_rect.top + margin, Min(y0, RectBottom(img_rect) - text_h - margin))
    IN  [x |-> x, y |-> y, x0 |-> x0, y0 |-> y0, text_w |-> text_w, text_h |-> text_h]

HandleRect(s) ==
    LET disp_w == image_draw_rect(s).width
        box == TextBox(s)
        handle_size == Max(8, FloorDiv(disp_w, 80))
    IN  [left |-> box.x + box.text_w - FloorDiv(handle_size, 2),
         top |-> box.y + box.text_h - FloorDiv(handle_size, 2),
         width |-> handle_size, height |-> handle_size]

----------------------------------------------------------------------------
(* PreviewWidget: pointer events *)

mousePressEvent(s, button, px, py) ==
    IF button = "left" /\ ~isNull(s.pixmap)
    THEN LET img_rect == image_draw_rect(s) IN
         IF img_rect.width > 0 /\ img_rect.height > 0
            /\ RectContains(HandleRect(s), px, py)
         THEN [s EXCEPT !.resizing = TRUE]
         ELSE [s EXCEPT !.dragging = TRUE]
    ELSE s

mouseMoveEvent_insideOnly(s, px, py) ==
    LET img_rect == image_draw_rect(s)
        disp_w == img_rect.width
        disp_h == img_rect.height
    IN
    IF isNull(s.pixmap) \/ disp_w <= 0 \/ disp_h <= 0 THEN s
    ELSE IF s.dragging /\ ~s.resizing /\ RectContains(img_rect, px, py)
    THEN set_norm_pos(s, FloorDiv((px - img_rect.left) * NormOne, disp_w),
                         FloorDiv((py - img_rect.top) * NormOne, disp_h))
    ELSE s

mouseMoveEvent_resizeMovesAnchor(s, px, py) ==
    LET img_rect == image_draw_rect(s)
        disp_w == img_rect.width
        disp_h == img_rect.height
    IN
    IF isNull(s.pixmap) \/ disp_w <= 0 \/ disp_h <= 0 \/ ~(s.resizing \/ s.dragging) THEN s
    ELSE set_norm_pos(s, FloorDiv((px - img_rect.left) * NormOne, disp_w),
                         FloorDiv((py - img_rect.top) * NormOne, disp_h))

mouseMoveEvent(s, px, py) ==
    LET img_rect == image_draw_rect(s)
        disp_w == img_rect.width
        disp_h == img_rect.height
    IN
    IF isNull(s.pixmap) THEN s
    ELSE IF disp_w <= 0 \/ disp_h <= 0 THEN s
    ELSE IF s.resizing
    THEN LET base_width == Max(1, horizontalAdvance(s.wm_text, BaseFontSize(disp_w)))
             x == TruncDiv(img_rect.left * NormOne + s.norm_x * disp_w, NormOne)
             desired_w == Max(10, px - x)
             \* desired_w / float(base_width); a quotient of 3.0 or more is
             \* clamped to 3.0 below whatever it is
             new_scale == IF desired_w >= 3 * base_width THEN ScaleMax
                          ELSE FloorDiv(desired_w * ScaleOne, base_width)
         IN  set_scale(s, Clamp(new_scale, ScaleMin, ScaleMax))
    ELSE IF s.dragging
    THEN LET rel_x == FloorDiv((px - img_rect.left) * NormOne, disp_w)
             rel_y == FloorDiv((py - img_rect.top) * NormOne, disp_h)
         IN  set_norm_pos(s, rel_x, rel_y)
    ELSE s

mouseReleaseEvent_dragOnly(s, button) ==
    IF button = "left" THEN [s EXCEPT !.dragging = FALSE] ELSE s

mouseReleaseEvent(s, button) ==
    IF button = "left" THEN [s EXCEPT !.dragging = FALSE, !.resizing = FALSE]
    ELSE s

----------------------------------------------------------------------------
(* MainWindow: the settings record (current_settings / apply_settings_to_ui) *)

\* The JSON object of a template file.  `present` holds the keys the object
\* has; `bad` holds the keys whose value int() / float() cannot convert (a
\* non-numeric string).  json.dump writes an int as its digits and a float
\* by repr, which json.load reads back to the same number, so a number
\* written is the number read.
Fields ==
    {"text", "opacity", "size_percent", "format", "name_rule", "prefix",
     "suffix", "norm_x", "norm_y", "scale", "export_dir"}

NameRule(s) == s.name_rule

current_settings_no_scale(s) ==
    [present |-> Fields \ {"scale"}, bad |-> {},
     text |-> Strip(s.input_text),
     opacity |-> s.opacity_slider,
     size_percent |-> s.size_spin,
     format |-> s.format_combo,
     name_rule |-> NameRule(s),
     prefix |-> Strip(s.input_prefix),
     suffix |-> Strip(s.input_suffix),
     norm_x |-> s.norm_x,
     norm_y |-> s.norm_y,
     scale |-> ScaleOne,
     export_dir |-> Strip(s.export_path)]

current_settings(s) ==
    [present |-> Fields, bad |-> {},
     text |-> Strip(s.input_text),
     opacity |-> s.opacity_slider,
     size_percent |-> s.size_spin,
     format |-> s.format_combo,
     name_rule |-> NameRule(s),
     prefix |-> Strip(s.input_prefix),
     suffix |-> Strip(s.input_suffix),
     norm_x |-> s.norm_x,
     norm_y |-> s.norm_y,
     scale |-> s.scale,
     export_dir |-> Strip(s.export_path)]

Get_no_default(r, key, default) == r[key]

\* s.get(key, default)
Get(r, key, default) == IF key \in r.present THEN r[key] ELSE default

\* format_combo.findText(fmt) >= 0
FormatItems == {"PNG", "JPEG"}

\* The statements of apply_settings_to_ui in order.  The result is the
\* state reached and whether the method returned (ok) or raised: a key in
\* r.bad raises ValueError at its int() / float(), after the statements
\* before it have run.
apply_settings_to_ui(s, r) ==
    LET s1 == input_text_setText(s, Get(r, "text", <<>>)) IN
    IF "opacity" \in r.present /\ "opacity" \in r.bad THEN [s |-> s1, ok |-> FALSE]
    ELSE
    LET s2 == opacity_slider_setValue(s1, Get(r, "opacity", 100)) IN
    IF "size_percent" \in r.present /\ "size_percent" \in r.bad THEN [s |-> s2, ok |-> FALSE]
    ELSE
    LET percent == Get(r, "size_percent", 100)
        s3 == size_spin_setValue(s2, percent)
        s4 == size_slider_setValue(s3, percent)
        fmt == Get(r, "format", "PNG")
        s5 == IF fmt \in FormatItems THEN [s4 EXCEPT !.format_combo = fmt] ELSE s4
        rule == Get(r, "name_rule", "keep")
        s6 == [s5 EXCEPT !.name_rule =
                  IF rule = "prefix" THEN "prefix"
                  ELSE IF rule = "suffix" THEN "suffix" ELSE "keep"]
        s7 == [s6 EXCEPT !.input_prefix = Get(r, "prefix", <<>>),
                         !.input_suffix = Get(r, "suffix", <<>>),
                         !.export_path = Get(r, "export_dir", <<>>)]
    IN
    IF \E k \in {"norm_x", "norm_y"} : k \in r.present /\ k \in r.bad
    THEN [s |-> s7, ok |-> FALSE]
    ELSE
    LET nx == Get(r, "norm_x", (8 * NormOne) \div 10)
        ny == Get(r, "norm_y", (85 * NormOne) \div 100)
        s8 == set_preview_pos(s7, nx, ny)
    IN
    IF "scale" \in r.present /\ "scale" \in r.bad THEN [s |-> s8, ok |-> FALSE]
    ELSE [s |-> set_scale(s8, Get(r, "scale", percent * (ScaleOne \div 100))),
          ok |-> TRUE]

\* The settings as the widgets hold them (no strip), field by field
SettingsOf(s) ==
    [text |-> s.input_text,
     opacity |-> s.opacity_slider,
     size_percent |-> s.size_spin,
     format |-> s.format_combo,
     name_rule |-> NameRule(s),
     prefix |-> s.input_prefix,
     suffix |-> s.input_suffix,
     norm_x |-> s.norm_x,
     norm_y |-> s.norm_y,
     scale |-> s.scale,
     export_dir |-> s.export_path]

----------------------------------------------------------------------------
(* MainWindow: the templates directory *)

\* Names are sequences of tokens: a word, or one blank.  A file name is the
\* name followed by the token ".json".
LastSettingsFile == <<"last_settings", ".json">>

template_path(name) == name \o <<".json">>

\* Code-point order of the tokens the model uses (str sort order)
TokenRank(tok) ==
    CASE tok = " " -> 0
      [] tok = ".json" -> 1
      [] tok = "last_settings" -> 2
      [] tok = "t1" -> 3
      [] tok = "t2" -> 4
      [] tok = "t3" -> 5
      [] OTHER -> 6

RECURSIVE LexLess(_, _)
LexLess(a, b) ==
    IF a = <<>> THEN b # <<>>
    ELSE IF b = <<>> THEN FALSE
    ELSE IF Head(a) = Head(b) THEN LexLess(Tail(a), Tail(b))
    ELSE TokenRank(Head(a)) < TokenRank(Head(b))

\* list.sort() of a set of distinct names
RECURSIVE SortNames(_)
SortNames(S) ==
    IF S = {} THEN <<>>
    ELSE LET m == CHOOSE x \in S : \A y \in S \ {x} : LexLess(x, y)
         IN  <<m>> \o SortNames(S \ {m})

\* A file's content: absent, a JSON object, or bytes json.load rejects
EmptyRecord ==
    [present |-> {}, bad |-> {}, text |-> <<>>, opacity |-> 0, size_percent |-> 0,
     format |-> "", name_rule |-> "", prefix |-> <<>>, suffix |-> <<>>,
     norm_x |-> 0, norm_y |-> 0, scale |-> 0, export_dir |-> <<>>]
Absent == [kind |-> "absent", rec |-> EmptyRecord]
Json(r) == [kind |-> "json", rec |-> r]

\* os.listdir(templates_dir), filtered as refresh_templates filters it
Listed(fs) ==
    {f \in DOMAIN fs : fs[f].kind # "absent" /\ f[Len(f)] = ".json"
                       /\ f # LastSettingsFile}

\* The combo after refresh_templates: clear() then addItems(names); a combo
\* that gets its first items makes the first one current.
refresh_templates(fs) ==
    LET sorted == SortNames(Listed(fs))
        names == [i \in 1..Len(sorted) |-> SubSeq(sorted[i], 1, Len(sorted[i]) - 1)]
    IN  [items |-> names, current |-> IF names = <<>> THEN 0 ELSE 1]

currentText(combo) == IF combo.current = 0 THEN <<>> ELSE combo.items[combo.current]

\* templates_combo.findText(name), 0 when there is no such item
findText(combo, name) ==
    IF \E i \in 1..Len(combo.items) : combo.items[i] = name
    THEN CHOOSE i \in 1..Len(combo.items) :
            combo.items[i] = name /\ \A j \in 1..(i - 1) : combo.items[j] # name
    ELSE 0

----------------------------------------------------------------------------
(* Paths *)

\* A directory is the sequence of its components below the root; "." and
\* ".." and "" (a doubled or trailing separator) may occur in a spelling.
\* A file's base name is its stem tokens followed by its extension token.

\* str.lower() on the tokens the model uses
Lower(tok) ==
    CASE tok = ".JPG" -> ".jpg"
      [] tok = ".PNG" -> ".png"
      [] tok = "SRC" -> "src"
      [] tok = "OUT" -> "out"
      [] OTHER -> tok

SUPPORTED_EXTS == {".jpg", ".jpeg", ".png", ".bmp", ".gif", ".tiff", ".webp"}

\* os.path.splitext of a base name: [stem, ext]
splitext(base) ==
    IF Len(base) > 1
       /\ base[Len(base)] \in {".jpg", ".JPG", ".jpeg", ".png", ".PNG", ".bmp", ".gif",
                                ".tiff", ".webp", ".txt", ".json"}
    THEN [stem |-> SubSeq(base, 1, Len(base) - 1), ext |-> base[Len(base)]]
    ELSE [stem |-> base, ext |-> ""]

is_image_file(path) == Lower(splitext(path.base).ext) \in SUPPORTED_EXTS

\* os.path.normpath on the components of an absolute path
RECURSIVE normpath(_, _)
normpath(done, rest) ==
    IF rest = <<>> THEN done
    ELSE LET c == Head(rest) IN
         IF c = "" \/ c = "." THEN normpath(done, Tail(rest))
         ELSE IF c = ".."
              THEN normpath(IF done = <<>> THEN done
                            ELSE SubSeq(done, 1, Len(done) - 1), Tail(rest))
         ELSE normpath(Append(done, c), Tail(rest))

\* os.path.normcase(os.path.abspath(d)); normcase (Windows: lower case) works
\* component by component
NormDir(d) == LET p == normpath(<<>>, d) IN [i \in 1..Len(p) |-> Lower(p[i])]

\* The image files on disk: the decoded size, or a null size when the file
\* does not decode (QPixmap is null, Image.open raises).
ImgA == [dir |-> <<"src">>, base |-> <<"a", ".jpg">>]
ImgB == [dir |-> <<"src2">>, base |-> <<"b", ".PNG">>]
ImgC == [dir |-> <<"src2">>, base |-> <<"c", ".png">>]
ImgD == [dir |-> <<"src">>, base |-> <<"d", ".jpg">>]
ImgE == [dir |-> <<"src2">>, base |-> <<"e", ".jpg">>]
ImgF == [dir |-> <<"src2">>, base |-> <<"a", ".png">>]
NotImg == [dir |-> <<"src">>, base |-> <<"notes", ".txt">>]

ImageOnDisk(path) ==
    CASE path = ImgA -> [w |-> 800, h |-> 800]
      [] path = ImgB -> [w |-> 1600, h |-> 800]
      [] path = ImgC -> NullPixmap
      [] path = ImgD -> [w |-> 16000, h |-> 10]
      [] path = ImgE -> [w |-> 800, h |-> 1600]
      [] path = ImgF -> [w |-> 800, h |-> 800]
      [] OTHER -> NullPixmap

----------------------------------------------------------------------------
(* MainWindow.apply_watermark *)

\* Opacity to alpha channel: int(255 * (opacity_percent / 100.0)).  The
\* float product truncates to floor(255 * p / 100) for every p in 0..100.
alpha_of(opacity_percent) == TruncDiv(AlphaMax * opacity_percent, 100)

\* margin = max(10, W // 100); x = int(norm_x * W); y = int(norm_y * H);
\* x = max(margin, min(x, W - text_w - margin)); the same for y
place(norm_x, norm_y, W, H, text_w, text_h) ==
    LET margin == Max(10, FloorDiv(W, 100))
        x0 == TruncDiv(norm_x * W, NormOne)
        y0 == TruncDiv(norm_y * H, NormOne)
    IN  [margin |-> margin,
         x |-> Max(margin, Min(x0, W - text_w - margin)),
         y |-> Max(margin, Min(y0, H - text_h - margin))]

\* The font: the first candidate file that exists and loads, at
\* max(8, int(base_px * max(0.5, min(3.0, scale)))) pixels with
\* base_px = max(16, int(W / 20)); else ImageFont.load_default().
font_px(W, scale, truetype) ==
    IF truetype
    THEN Max(8, MulDiv(Max(16, TruncDiv(W, 20)), Clamp(scale, ScaleMin, ScaleMax), ScaleOne))
    ELSE 10

\* draw.textbbox((0, 0), text, font): every character advances half the
\* pixel size, a line is as high as the size.
textbbox(text, px) == [w |-> (Len(text) * px) \div 2, h |-> IF text = <<>> THEN 0 ELSE px]

out_path_source_ext(img_path, export_dir, fmt, name_rule, prefix_text, suffix_text) ==
    LET base_name == splitext(img_path.base).stem
        out_base == IF name_rule = "prefix" /\ prefix_text # <<>> THEN prefix_text \o base_name
                    ELSE IF name_rule = "suffix" /\ suffix_text # <<>> THEN base_name \o suffix_text
                    ELSE base_name
    IN  [dir |-> NormDir(export_dir), base |-> Append(out_base, Lower(splitext(img_path.base).ext))]

\* The output file: os.path.join(export_dir, out_base + out_ext)
out_path(img_path, export_dir, fmt, name_rule, prefix_text, suffix_text) ==
    LET base_name == splitext(img_path.base).stem
        out_base == IF name_rule = "prefix" /\ prefix_text # <<>> THEN prefix_text \o base_name
                    ELSE IF name_rule = "suffix" /\ suffix_text # <<>> THEN base_name \o suffix_text
                    ELSE base_name
        out_ext == IF fmt = "PNG" THEN ".png" ELSE ".jpg"
    IN  [dir |-> NormDir(export_dir), base |-> Append(out_base, out_ext)]

\* What one call draws with, once the text is measured
Compose(W, H, norm_x, norm_y, bbox, opacity_percent, scale, truetype, px) ==
    LET at == place(norm_x, norm_y, W, H, bbox.w, bbox.h)
    IN  [called |-> TRUE, W |-> W, H |-> H,
         norm_x |-> norm_x, norm_y |-> norm_y,
         text_w |-> bbox.w, text_h |-> bbox.h,
         margin |-> at.margin, x |-> at.x, y |-> at.y,
         opacity_percent |-> opacity_percent,
         alpha |-> alpha_of(opacity_percent),
         scale |-> Clamp(scale, ScaleMin, ScaleMax),
         truetype |-> truetype, font_px |-> px]

\* One call on a file that decodes: open, choose the font, measure, place
apply_watermark(img_path, a, truetype) ==
    LET img == ImageOnDisk(img_path)
        px == font_px(img.w, a.scale, truetype)
    IN  Compose(img.w, img.h, a.norm_x, a.norm_y, textbbox(a.wm_text, px),
                a.opacity_percent, a.scale, truetype, px)

NoRender ==
    [called |-> FALSE, W |-> 0, H |-> 0, norm_x |-> 0, norm_y |-> 0,
     text_w |-> 0, text_h |-> 0, margin |-> 0, x |-> 0, y |-> 0,
     opacity_percent |-> 0, alpha |-> 0, scale |-> ScaleOne,
     truetype |-> FALSE, font_px |-> 0]

----------------------------------------------------------------------------
(* The state after construction *)

Defaults ==
    [input_text |-> <<>>, opacity_slider |-> 100, size_slider |-> 100,
     size_spin |-> 100, export_path |-> <<>>, format_combo |-> "PNG",
     name_rule |-> "keep", input_prefix |-> <<>>, input_suffix |-> <<>>,
     pixmap |-> NullPixmap, wm_text |-> <<>>, opacity |-> OpacityOne,
     scale |-> ScaleOne,
     norm_x |-> (8 * NormOne) \div 10, norm_y |-> (85 * NormOne) \div 100,
     dragging |-> FALSE, resizing |-> FALSE,
     btn_process |-> TRUE, btn_add_files |-> TRUE, btn_add_dir |-> TRUE,
     btn_clear |-> TRUE,
     sig |-> 0, overflow |-> FALSE]

\* load_last_settings: apply the last-used record when it exists and
\* parses; an exception is swallowed where it is raised.
load_last_settings(s, fs) ==
    IF fs[LastSettingsFile].kind = "json"
    THEN apply_settings_to_ui(s, fs[LastSettingsFile].rec).s
    ELSE s

\* MainWindow.__init__ (with init_templates), then main()'s
\* w.preview.set_opacity_percent(w.opacity_slider.value())
Construct(fs) ==
    LET s == load_last_settings(Defaults, fs)
    IN  set_opacity_percent(s, s.opacity_slider)

\* The names a user types and the files they name
NameTokens == {"t1", "t2", "t3", "last_settings"}
TemplateFiles == {template_path(<<n>>) : n \in NameTokens}

IdleRun ==
    [pc |-> "idle", i |-> 0, paths |-> <<>>, failed |-> <<>>, log |-> <<>>,
     seen |-> <<>>,
     a |-> [wm_text |-> <<>>, opacity_percent |-> 0, export_dir |-> <<>>,
            fmt |-> "", name_rule |-> "", prefix_text |-> <<>>,
            suffix_text |-> <<>>, norm_x |-> 0, norm_y |-> 0, scale |-> 0],
     written |-> {}, result |-> "none"]

\* The placement machine's state: the two flags read together
Mode(s) ==
    IF s.dragging /\ s.resizing THEN "both"
    ELSE IF s.dragging THEN "dragging"
    ELSE IF s.resizing THEN "resizing"
    ELSE "idle"

NoEvent ==
    [op |-> "init", button |-> "", name |-> <<>>, ok |-> TRUE, mode |-> "idle",
     x |-> 0, y |-> 0]

\* The event being handled, and the placement machine's state before it;
\* x and y are the pointer position of a pointer event and the coordinates
\* a preset button passes
Event(op, button, name, ok) ==
    [op |-> op, button |-> button, name |-> name, ok |-> ok, mode |-> Mode(ui),
     x |-> 0, y |-> 0]

NotSaved == [valid |-> FALSE, s |-> SettingsOf(Defaults), named |-> FALSE]

\* The program is started on a templates directory holding fs
InitOn(fs) ==
    /\ files = fs
    /\ ui = Construct(files)
    /\ list_widget = <<>>
    /\ templates_combo = refresh_templates(files)
    /\ outputs = {}
    /\ run = IdleRun
    /\ session = "running"
    /\ ev = NoEvent
    /\ saved = [f \in TemplateFiles |-> NotSaved]
    /\ render = NoRender

Init == InitOn([f \in TemplateFiles |-> Absent])

\* An event handler runs when the window is open and no handler is running
Ready == session = "running" /\ run.pc = "idle"

\* A handler starts with no signal emitted yet
Begin(s) == [s EXCEPT !.sig = 0]

----------------------------------------------------------------------------
(* The user's edits of the settings controls *)

UiOnly == UNCHANGED <<list_widget, templates_combo, files, outputs, run, session, saved, render>>

\* typing in the text box (textChanged -> on_text_change)
TextEdited(t) ==
    /\ Ready
    /\ ui' = input_text_setText(Begin(ui), t)
    /\ ev' = Event("text", "", <<>>, TRUE)
    /\ UiOnly

\* moving the opacity slider (valueChanged -> on_opacity_change)
OpacityMoved(v) ==
    /\ Ready
    /\ ui' = opacity_slider_setValue(Begin(ui), v)
    /\ ev' = Event("opacity", "", <<>>, TRUE)
    /\ UiOnly

\* moving the size slider (valueChanged -> on_font_scale_change)
SizeSliderMoved(v) ==
    /\ Ready
    /\ ui' = size_slider_setValue(Begin(ui), v)
    /\ ev' = Event("size_slider", "", <<>>, TRUE)
    /\ UiOnly

\* editing the size spin box (valueChanged -> on_font_scale_change)
SizeSpinEdited(v) ==
    /\ Ready
    /\ ui' = size_spin_setValue(Begin(ui), v)
    /\ ev' = Event("size_spin", "", <<>>, TRUE)
    /\ UiOnly

FormatChosen(fmt) ==
    /\ Ready
    /\ fmt \in FormatItems
    /\ ui' = [Begin(ui) EXCEPT !.format_combo = fmt]
    /\ ev' = Event("format", "", <<>>, TRUE)
    /\ UiOnly

\* checking one of rb_keep / rb_prefix / rb_suffix
NameRuleChosen(rule) ==
    /\ Ready
    /\ ui' = [Begin(ui) EXCEPT !.name_rule = rule]
    /\ ev' = Event("name_rule", "", <<>>, TRUE)
    /\ UiOnly

\* typing in the prefix box, enabled while rb_prefix is checked
PrefixEdited(t) ==
    /\ Ready
    /\ NameRule(ui) = "prefix"
    /\ ui' = [Begin(ui) EXCEPT !.input_prefix = t]
    /\ ev' = Event("prefix", "", <<>>, TRUE)
    /\ UiOnly

\* typing in the suffix box, enabled while rb_suffix is checked
SuffixEdited(t) ==
    /\ Ready
    /\ NameRule(ui) = "suffix"
    /\ ui' = [Begin(ui) EXCEPT !.input_suffix = t]
    /\ ev' = Event("suffix", "", <<>>, TRUE)
    /\ UiOnly

\* typing in the export path box, or choose_export_dir
ExportPathEdited(d) ==
    /\ Ready
    /\ ui' = [Begin(ui) EXCEPT !.export_path = d]
    /\ ev' = Event("export_path", "", <<>>, TRUE)
    /\ UiOnly

\* one of the nine preset buttons: lambda: self.set_preview_pos(nx, ny)
Presets ==
    LET lo == (2 * NormOne) \div 100
        mid == NormOne \div 2
        hi == (98 * NormOne) \div 100
    IN  {<<lo, lo>>, <<mid, lo>>, <<hi, lo>>,
         <<lo, mid>>, <<mid, mid>>, <<hi, mid>>,
         <<lo, hi>>, <<mid, hi>>, <<hi, hi>>}

PresetClicked(pos) ==
    /\ Ready
    /\ pos \in Presets
    /\ ui' = set_preview_pos(Begin(ui), pos[1], pos[2])
    /\ ev' = [Event("preset", "", <<>>, TRUE) EXCEPT !.x = pos[1], !.y = pos[2]]
    /\ UiOnly

----------------------------------------------------------------------------
(* Pointer events on the preview *)

Press(button, px, py) ==
    /\ Ready
    /\ ui' = mousePressEvent(Begin(ui), button, px, py)
    /\ ev' = [Event("press", button, <<>>, TRUE) EXCEPT !.x = px, !.y = py]
    /\ UiOnly

Move(px, py) ==
    /\ Ready
    /\ ui' = mouseMoveEvent(Begin(ui), px, py)
    /\ ev' = [Event("move", "", <<>>, TRUE) EXCEPT !.x = px, !.y = py]
    /\ UiOnly

Release(button) ==
    /\ Ready
    /\ ui' = mouseReleaseEvent(Begin(ui), button)
    /\ ev' = Event("release", button, <<>>, TRUE)
    /\ UiOnly

----------------------------------------------------------------------------
(* The image list *)

MaxImages == 3

\* ImageListWidget.add_image_items: `existing` is read once, before the loop
RECURSIVE add_image_items(_, _, _)
add_image_items(items, existing, paths) ==
    IF paths = <<>> THEN items
    ELSE LET p == Head(paths) IN
         IF p \in existing THEN add_image_items(items, existing, Tail(paths))
         ELSE add_image_items(Append(items, p), existing, Tail(paths))

Range(q) == {q[i] : i \in 1..Len(q)}

\* [f for f in files if is_image_file(f)]
RECURSIVE FilterImages(_)
FilterImages(paths) ==
    IF paths = <<>> THEN <<>>
    ELSE IF is_image_file(Head(paths)) THEN <<Head(paths)>> \o FilterImages(Tail(paths))
    ELSE FilterImages(Tail(paths))

\* add_files: the dialog returns `chosen`
AddFiles(chosen) ==
    /\ Ready
    /\ ui.btn_add_files
    /\ LET added == add_image_items(list_widget, Range(list_widget), FilterImages(chosen))
       IN  /\ Len(added) <= MaxImages
           /\ list_widget' = added
    /\ ev' = Event("add_files", "", <<>>, TRUE)
    /\ ui' = Begin(ui)
    /\ UNCHANGED <<templates_combo, files, outputs, run, session, saved, render>>

\* btn_clear -> list_widget.clear_all; the preview keeps its pixmap
ClearList ==
    /\ Ready
    /\ ui.btn_clear
    /\ list_widget # <<>>
    /\ list_widget' = <<>>
    /\ ev' = Event("clear", "", <<>>, TRUE)
    /\ ui' = Begin(ui)
    /\ UNCHANGED <<templates_combo, files, outputs, run, session, saved, render>>

\* clicking item i: on_list_selection_changed loads it into the preview
SelectImage(i) ==
    /\ Ready
    /\ i \in 1..Len(list_widget)
    /\ ui' = set_image(Begin(ui), ImageOnDisk(list_widget[i]))
    /\ ev' = Event("select_image", "", <<>>, TRUE)
    /\ UiOnly

----------------------------------------------------------------------------
(* Templates: save, load, delete, the last-used record *)

\* save_template: the dialog returns (name, ok); open(path, "w") succeeds
\* (writeOk) or raises
SaveTemplate(name, ok, writeOk) ==
    /\ Ready
    /\ LET n == Strip(name)
           path == template_path(n)
       IN  IF ~ok \/ n = <<>> \/ ~writeOk
           THEN /\ ev' = Event("save_template", "", n, FALSE)
                /\ UNCHANGED <<files, templates_combo, saved>>
           ELSE /\ path \in DOMAIN files
                /\ files' = [files EXCEPT ![path] = Json(current_settings(ui))]
                /\ LET combo == refresh_templates(files')
                       idx == findText(combo, n)
                   IN  templates_combo' = IF idx >= 1 THEN [combo EXCEPT !.current = idx]
                                          ELSE combo
                /\ saved' = [saved EXCEPT ![path] = [valid |-> TRUE, s |-> SettingsOf(ui),
                                                     named |-> TRUE]]
                /\ ev' = Event("save_template", "", n, TRUE)
    /\ ui' = Begin(ui)
    /\ UNCHANGED <<list_widget, outputs, run, session, render>>

\* choosing an item of the template combo
SelectTemplate(i) ==
    /\ Ready
    /\ i \in 1..Len(templates_combo.items)
    /\ i # templates_combo.current
    /\ templates_combo' = [templates_combo EXCEPT !.current = i]
    /\ ev' = Event("select_template", "", <<>>, TRUE)
    /\ ui' = Begin(ui)
    /\ UNCHANGED <<list_widget, files, outputs, run, session, saved, render>>

\* load_selected_template: open and json.load raise on a missing or
\* unparsable file; apply_settings_to_ui may raise part-way
load_selected_template(s, combo, fs) ==
    LET name == Strip(currentText(combo))
        path == template_path(name)
    IN  IF name = <<>> THEN [s |-> s, ok |-> FALSE]
        ELSE IF fs[path].kind # "json" THEN [s |-> s, ok |-> FALSE]
        ELSE apply_settings_to_ui(s, fs[path].rec)

LoadTemplate ==
    /\ Ready
    /\ LET res == load_selected_template(Begin(ui), templates_combo, files)
       IN  /\ ui' = res.s
           /\ ev' = Event("load_template", "", Strip(currentText(templates_combo)), res.ok)
    /\ UiOnly

\* delete_selected_template: the question box returns confirm
DeleteTemplate(confirm) ==
    /\ Ready
    /\ LET name == Strip(currentText(templates_combo))
           path == template_path(name)
       IN  IF name = <<>> \/ ~confirm
           THEN /\ ev' = Event("delete_template", "", name, FALSE)
                /\ UNCHANGED <<files, templates_combo, saved>>
           ELSE /\ files' = [files EXCEPT ![path] = Absent]
                /\ templates_combo' = refresh_templates(files')
                /\ saved' = [saved EXCEPT ![path] = NotSaved]
                /\ ev' = Event("delete_template", "", name, TRUE)
    /\ ui' = Begin(ui)
    /\ UNCHANGED <<list_widget, outputs, run, session, render>>

\* The user (or another program) rewrites a file of the templates directory
EditFile(f, content) ==
    /\ run.pc = "idle"
    /\ f \in DOMAIN files
    /\ files[f] # content
    /\ files' = [files EXCEPT ![f] = content]
    /\ saved' = [saved EXCEPT ![f] = NotSaved]
    /\ ev' = Event("edit_file", "", <<>>, TRUE)
    /\ UNCHANGED <<ui, list_widget, templates_combo, outputs, run, session, render>>

\* closeEvent: save_last_settings (a failed write is swallowed), then the
\* window closes
closeEvent(writeOk) ==
    /\ Ready
    /\ files' = IF writeOk
                THEN [files EXCEPT ![LastSettingsFile] = Json(current_settings(ui))]
                ELSE files
    /\ saved' = IF writeOk
                THEN [saved EXCEPT ![LastSettingsFile] =
                         [valid |-> TRUE, s |-> SettingsOf(ui), named |-> @.named]]
                ELSE saved
    /\ session' = "closed"
    /\ ev' = Event("close", "", <<>>, writeOk)
    /\ UNCHANGED <<ui, list_widget, templates_combo, outputs, run, render>>

\* The program is started again: __init__ and main()
Start ==
    /\ session = "closed"
    /\ session' = "running"
    /\ ui' = Construct(files)
    /\ list_widget' = <<>>
    /\ templates_combo' = refresh_templates(files)
    /\ run' = IdleRun
    /\ ev' = Event("start", "", <<>>, TRUE)
    /\ UNCHANGED <<files, outputs, saved, render>>

----------------------------------------------------------------------------
(* MainWindow.process_images *)

\* The values process_images reads from the widgets before its checks
ExportArgs(s) ==
    [wm_text |-> Strip(s.input_text),
     opacity_percent |-> s.opacity_slider,
     export_dir |-> Strip(s.export_path),
     fmt |-> s.format_combo,
     name_rule |-> NameRule(s),
     prefix_text |-> Strip(s.input_prefix),
     suffix_text |-> Strip(s.input_suffix),
     norm_x |-> s.norm_x, norm_y |-> s.norm_y, scale |-> s.scale]

LastSourceDirOnly(export_dir, paths) ==
    paths # <<>> /\ NormDir(export_dir) = NormDir(paths[Len(paths)].dir)

\* exp_norm == src_dir for some path of the list
ExportsToSourceDir(export_dir, paths) ==
    \E i \in 1..Len(paths) : NormDir(export_dir) = NormDir(paths[i].dir)

\* The checks before the loop, in order: the name of the early return
\* taken, or "loop" when the run goes on.  dirOk: the export directory is
\* one or os.makedirs creates it; answerYes: the answer to the empty-text
\* question.
Precheck(a, paths, dirOk, answerYes) ==
    IF a.export_dir = <<>> THEN "no_export_dir"
    ELSE IF ~dirOk THEN "mkdir_failed"
    ELSE IF paths = <<>> THEN "no_images"
    ELSE IF ExportsToSourceDir(a.export_dir, paths) THEN "source_dir"
    ELSE IF a.wm_text = <<>> /\ ~answerYes THEN "declined"
    ELSE "loop"

SetButtons(s, on) ==
    [s EXCEPT !.btn_process = on, !.btn_add_files = on, !.btn_add_dir = on,
              !.btn_clear = on]

ProcessStart(dirOk, answerYes) ==
    /\ Ready
    /\ ui.btn_process
    /\ LET a == ExportArgs(ui)
           verdict == Precheck(a, list_widget, dirOk, answerYes)
       IN  IF verdict = "loop"
           THEN /\ ui' = SetButtons(Begin(ui), FALSE)
                /\ run' = [pc |-> "loop", i |-> 1, paths |-> list_widget,
                           failed |-> <<>>, log |-> <<>>, seen |-> <<>>, a |-> a,
                           written |-> {}, result |-> "running"]
           ELSE /\ ui' = Begin(ui)
                /\ run' = [IdleRun EXCEPT !.result = verdict, !.paths = list_widget, !.a = a]
    /\ ev' = Event("process", "", <<>>, TRUE)
    /\ UNCHANGED <<list_widget, templates_combo, files, outputs, session, saved, render>>

\* The file a path names: a "/" token in the name given to os.path.join is
\* a separator, so the tokens before the last one are directories below
\* the export directory (each one token) and ".." climbs out of it.
FileAt(path) ==
    LET seps == {i \in 1..Len(path.base) : path.base[i] = "/"}
        k == IF seps = {} THEN 0 ELSE CHOOSE i \in seps : \A j \in seps : j <= i
        IsDir(t) == t # "/"
    IN  [dir |-> NormDir(path.dir \o SelectSeq(SubSeq(path.base, 1, k), IsDir)),
         base |-> SubSeq(path.base, k + 1, Len(path.base))]

\* The directories there are: the two source folders and the export
\* directory, which process_images has made sure of
DirExists(d, export_dir) == d \in {<<"src">>, <<"src2">>, NormDir(export_dir)}

\* to_save.save(out_path, "JPEG", ...) when fmt is "JPEG", else
\* to_save.save(out_path, "PNG", ...): the file at out_path is replaced
WriteFile(fs, path, src, fmt) ==
    {o \in fs : FileAt(o.path) # FileAt(path)}
        \cup {[path |-> path, src |-> src,
                saved_as |-> IF fmt = "JPEG" THEN "JPEG" ELSE "PNG"]}

\* One iteration of `for p in paths`: apply_watermark in try / except.
\* The file decodes or Image.open raises; save succeeds (writeOk, into a
\* directory there is) or raises.
StepAbortOnError(r, outs, truetype, writeOk) ==
    LET p == r.paths[r.i]
        out == out_path(p, r.a.export_dir, r.a.fmt, r.a.name_rule,
                        r.a.prefix_text, r.a.suffix_text)
        outcome == IF isNull(ImageOnDisk(p)) THEN "decode"
                   ELSE IF ~writeOk \/ ~DirExists(FileAt(out).dir, r.a.export_dir)
                   THEN "write" ELSE "ok"
    IN  [run |-> [r EXCEPT !.i = IF outcome = "ok" THEN @ + 1 ELSE Len(r.paths) + 1,
                            !.log = Append(@, outcome),
                            !.seen = Append(@, p),
                            !.failed = IF outcome = "ok" THEN @
                                       ELSE Append(@, [path |-> p, err |-> outcome]),
                            !.written = IF outcome = "ok" THEN @ \cup {out} ELSE @],
         outputs |-> IF outcome = "ok" THEN WriteFile(outs, out, p, r.a.fmt) ELSE outs,
         drew |-> outcome # "decode"]

Step(r, outs, truetype, writeOk) ==
    LET p == r.paths[r.i]
        out == out_path(p, r.a.export_dir, r.a.fmt, r.a.name_rule,
                        r.a.prefix_text, r.a.suffix_text)
        outcome == IF isNull(ImageOnDisk(p)) THEN "decode"
                   ELSE IF ~writeOk \/ ~DirExists(FileAt(out).dir, r.a.export_dir)
                   THEN "write" ELSE "ok"
    IN  [run |-> [r EXCEPT !.i = @ + 1,
                            !.log = Append(@, outcome),
                            !.seen = Append(@, p),
                            !.failed = IF outcome = "ok" THEN @
                                       ELSE Append(@, [path |-> p, err |-> outcome]),
                            !.written = IF outcome = "ok" THEN @ \cup {out} ELSE @],
         outputs |-> IF outcome = "ok" THEN WriteFile(outs, out, p, r.a.fmt) ELSE outs,
         drew |-> outcome # "decode"]

ProcessStep(truetype, writeOk) ==
    /\ session = "running"
    /\ run.pc = "loop"
    /\ run.i <= Len(run.paths)
    /\ LET res == Step(run, outputs, truetype, writeOk)
       IN  /\ run' = res.run
           /\ outputs' = res.outputs
           /\ render' = IF res.drew
                        THEN apply_watermark(run.paths[run.i], run.a, truetype)
                        ELSE render
    /\ UNCHANGED <<ui, list_widget, templates_combo, files, session, ev, saved>>

ProcessFinish_EnableOnSuccess ==
    /\ session = "running"
    /\ run.pc = "loop"
    /\ run.i > Len(run.paths)
    /\ ui' = IF run.failed = <<>> THEN SetButtons(ui, TRUE) ELSE ui
    /\ run' = [run EXCEPT !.pc = "idle",
                          !.result = IF run.failed # <<>> THEN "partial" ELSE "done"]
    /\ UNCHANGED <<list_widget, templates_combo, files, outputs, session, ev, saved, render>>

\* After the loop: the buttons are enabled again and the result is shown
ProcessFinish ==
    /\ session = "running"
    /\ run.pc = "loop"
    /\ run.i > Len(run.paths)
    /\ ui' = SetButtons(ui, TRUE)
    /\ run' = [run EXCEPT !.pc = "idle",
                          !.result = IF run.failed # <<>> THEN "partial" ELSE "done"]
    /\ UNCHANGED <<list_widget, templates_combo, files, outputs, session, ev, saved, render>>

----------------------------------------------------------------------------
(* apply_watermark as a function of its inputs *)

\* One call with the anchor, the image size, the measured text box and the
\* opacity given
RenderCall(norm_x, norm_y, W, H, text_w, text_h, opacity_percent) ==
    /\ ~render.called
    /\ render' = Compose(W, H, norm_x, norm_y, [w |-> text_w, h |-> text_h],
                         opacity_percent, ScaleOne, TRUE, text_h)
    /\ UNCHANGED <<ui, list_widget, templates_combo, files, outputs, run, session, ev, saved>>

RenderAnchors == {0, (2 * NormOne) \div 100, NormOne \div 2, (98 * NormOne) \div 100, NormOne}

\* One call per behaviour: the inputs are drawn once
NextRender ==
    /\ ~render.called
    /\ \/ \E nx \in RenderAnchors, ny \in RenderAnchors, W \in {300, 800, 1600},
             H \in {200, 800}, tw \in {0, 120, 285, 900}, th \in {0, 40, 190, 900},
             op \in {0, 1, 50, 100} :
             RenderCall(nx, ny, W, H, tw, th, op)
       \/ \E op \in OpacityMin..OpacityMax :
             RenderCall(NormOne \div 2, NormOne \div 2, 800, 800, 120, 40, op)

SpecRender == Init /\ [][NextRender]_vars

\* C1: every call places the text box inside the margins:
\* margin <= x, x + text_w <= W - margin, margin <= y, y + text_h <= H - margin.
C1_TextBoxInsideMargins ==
    render.called =>
        /\ render.margin <= render.x
        /\ render.x + render.text_w <= render.W - render.margin
        /\ render.margin <= render.y
        /\ render.y + render.text_h <= render.H - render.margin

\* C2: the alpha a call draws with is round(255 * opacity_percent / 100).
C2_AlphaIsRounded ==
    render.called =>
        render.alpha = RoundHalfEven(AlphaMax * render.opacity_percent, 100)

----------------------------------------------------------------------------
(* Placement: pointer events, presets and template loads *)

\* Template files written by hand: values outside every range, above and below
RecOver ==
    [EmptyRecord EXCEPT !.present = {"opacity", "size_percent", "norm_x", "norm_y", "scale"},
                        !.opacity = 150, !.size_percent = 400,
                        !.norm_x = -(NormOne \div 2), !.norm_y = (3 * NormOne) \div 2,
                        !.scale = 4 * ScaleOne]
RecUnder ==
    [EmptyRecord EXCEPT !.present = {"text", "opacity", "size_percent", "norm_x", "norm_y", "scale"},
                        !.text = <<"W">>,
                        !.opacity = -50, !.size_percent = 10,
                        !.norm_x = 2 * NormOne, !.norm_y = -NormOne,
                        !.scale = ScaleOne \div 10]

HandDisk ==
    [f \in TemplateFiles |->
        IF f = template_path(<<"t1">>) THEN Json(RecOver)
        ELSE IF f = template_path(<<"t2">>) THEN Json(RecUnder)
        ELSE Absent]

Buttons == {"left", "right"}

NextPlacement ==
    \/ AddFiles(<<ImgA, ImgD>>)
    \/ \E i \in 1..MaxImages : SelectImage(i)
    \/ TextEdited(<<"W">>)
    \/ \E b \in Buttons, pt \in {<<660, 720>>, <<640, 720>>, <<200, 200>>} : Press(b, pt[1], pt[2])
    \/ \E pt \in {<<-40, 900>>, <<200, 200>>, <<680, 720>>, <<900, -40>>} : Move(pt[1], pt[2])
    \/ \E b \in Buttons : Release(b)
    \/ \E pos \in Presets : PresetClicked(pos)
    \/ \E i \in 1..2 : SelectTemplate(i)
    \/ LoadTemplate

SpecPlacement == InitOn(HandDisk) /\ [][NextPlacement]_vars

\* C8: in every reachable state both components of the stored anchor are
\* within [0, 1].
C8_AnchorInUnitSquare ==
    /\ 0 <= ui.norm_x /\ ui.norm_x <= NormOne
    /\ 0 <= ui.norm_y /\ ui.norm_y <= NormOne

\* C8 witness: a template whose norm_x is below 0 and norm_y above 1 has
\* just been loaded, and the anchor is the clamped (0, 1).
C8_Witness ==
    /\ ev.op = "load_template" /\ ev.ok
    /\ files[template_path(ev.name)].rec.norm_x < 0
    /\ files[template_path(ev.name)].rec.norm_y > NormOne
    /\ ui.norm_x = 0 /\ ui.norm_y = NormOne

\* C10 as stated: a pointer-release (of any button) in Dragging or Resizing
\* leaves the machine Idle with the anchor and the scale unchanged.
C10_ReleaseOfAnyButtonGoesIdle ==
    [][(ev'.op = "release" /\ (ui.dragging \/ ui.resizing))
        => /\ ~ui'.dragging /\ ~ui'.resizing
           /\ ui'.norm_x = ui.norm_x /\ ui'.norm_y = ui.norm_y
           /\ ui'.scale = ui.scale]_vars

\* C10 amended: a release of the left button in Dragging or Resizing leaves
\* the machine Idle with the anchor and the scale unchanged.
C10_LeftReleaseGoesIdle ==
    [][(ev'.op = "release" /\ ev'.button = "left" /\ (ui.dragging \/ ui.resizing))
        => /\ ~ui'.dragging /\ ~ui'.resizing
           /\ ui'.norm_x = ui.norm_x /\ ui'.norm_y = ui.norm_y
           /\ ui'.scale = ui.scale]_vars

\* C10 witness: the left button was released in Resizing, the machine is
\* Idle and the scale is the one a resize move computed.
C10_Witness ==
    /\ ev.op = "release" /\ ev.button = "left" /\ ev.mode = "resizing"
    /\ ~ui.dragging /\ ~ui.resizing
    /\ ui.scale = 2 * ScaleOne

----------------------------------------------------------------------------
(* The template store: save, load, delete, shutdown and restart *)

\* Template files written by hand.  RecOff sets every field, its text and
\* affixes padded with blanks and its scale (1.234) not a whole percent;
\* RecNear differs in the scale, which is one unit off 1.23; RecBad has an
\* opacity that int() rejects.
RecOff ==
    [EmptyRecord EXCEPT !.present = Fields,
                        !.text = <<" ", "W">>, !.opacity = 40, !.size_percent = 123,
                        !.format = "JPEG", !.name_rule = "suffix",
                        !.prefix = <<"p", " ">>, !.suffix = <<" ", "s">>,
                        !.norm_x = NormOne \div 4, !.norm_y = NormOne \div 2,
                        !.scale = 1234 * (ScaleOne \div 1000),
                        !.export_dir = <<"out", " ">>]
RecNear == [RecOff EXCEPT !.scale = 123 * (ScaleOne \div 100) + 1]
RecBad ==
    [EmptyRecord EXCEPT !.present = {"text", "opacity"}, !.bad = {"opacity"},
                        !.text = <<"X">>]

StoreDisk ==
    [f \in TemplateFiles |->
        IF f = template_path(<<"t1">>) THEN Json(RecOff)
        ELSE IF f = template_path(<<"t2">>) THEN Json(RecNear)
        ELSE IF f = template_path(<<"t3">>) THEN Json(RecBad)
        ELSE Absent]

\* The names are what the user types into the save dialog
NextStore ==
    \/ TextEdited(<<"V">>)
    \/ SizeSpinEdited(150)
    \/ \E name \in {<<" ", "t1">>, <<" ">>}, ok \in BOOLEAN, writeOk \in BOOLEAN :
          SaveTemplate(name, ok, writeOk)
    \/ \E i \in 1..3 : SelectTemplate(i)
    \/ LoadTemplate
    \/ \E content \in {[kind |-> "garbage", rec |-> EmptyRecord], Absent} :
          EditFile(template_path(<<"t3">>), content)

SpecStore == InitOn(StoreDisk) /\ [][NextStore]_vars

\* The program's life on its own templates directory: sessions that save
\* templates under any name, delete them, close and start again
NextSession ==
    \/ TextEdited(<<"V">>)
    \/ OpacityMoved(40)
    \/ \E name \in {<<"t1">>, <<"t2">>, <<"last_settings">>},
          ok \in BOOLEAN, writeOk \in BOOLEAN :
          SaveTemplate(name, ok, writeOk)
    \/ \E i \in 1..2 : SelectTemplate(i)
    \/ LoadTemplate
    \/ \E confirm \in BOOLEAN : DeleteTemplate(confirm)
    \/ \E writeOk \in BOOLEAN : closeEvent(writeOk)
    \/ Start

SpecSession == Init /\ [][NextSession]_vars

\* C3: a load that fails leaves every setting as it was before the load.
C3_FailedLoadLeavesSettings ==
    [][(ev'.op = "load_template" /\ ~ev'.ok) => SettingsOf(ui') = SettingsOf(ui)]_vars

\* C6: no save_template call writes or replaces the last-used record.
C6_SaveTemplateSparesLastUsed ==
    [][ev'.op = "save_template" => files'[LastSettingsFile] = files[LastSettingsFile]]_vars

\* The template just loaded is one the program saved, and not changed since
LoadedOwnTemplate ==
    /\ ev.op = "load_template" /\ ev.ok
    /\ saved[template_path(ev.name)].valid

\* C7 as stated: after saving a state as a template and loading it, every
\* field equals the saved state's.
C7_RoundTripEqualInEveryField ==
    LoadedOwnTemplate => SettingsOf(ui) = saved[template_path(ev.name)].s

\* C7 amended: after saving a state as a template and loading it, opacity,
\* size percent, format, naming rule and anchor equal the saved state's;
\* text, prefix, suffix and export directory equal the saved ones with
\* leading and trailing blanks removed; the scale is within 1e-6 of the
\* saved one.
C7_RoundTripUpToStripAndEps ==
    LoadedOwnTemplate =>
        LET was == saved[template_path(ev.name)].s
            now == SettingsOf(ui)
        IN  /\ now.text = Strip(was.text)
            /\ now.prefix = Strip(was.prefix)
            /\ now.suffix = Strip(was.suffix)
            /\ now.export_dir = Strip(was.export_dir)
            /\ now.opacity = was.opacity
            /\ now.size_percent = was.size_percent
            /\ now.format = was.format
            /\ now.name_rule = was.name_rule
            /\ now.norm_x = was.norm_x /\ now.norm_y = was.norm_y
            /\ Abs(now.scale - was.scale) <= ScaleEps

\* C7 witness: a saved template has been loaded from another state; the
\* saved text had blanks around it and the saved scale was not a whole
\* percent, and the loaded text and scale differ from the saved ones.
C7_Witness ==
    /\ LoadedOwnTemplate
    /\ ui.input_text # saved[template_path(ev.name)].s.text
    /\ ui.scale # saved[template_path(ev.name)].s.scale
    /\ ui.size_spin = 123

----------------------------------------------------------------------------
(* Export runs *)

\* What the file dialog returns, and what the user types as export directory
ChosenFiles == {<<ImgA>>, <<ImgC, ImgB>>, <<ImgE, NotImg>>}

\* The user sets the controls up and then starts export runs
SettingUp == run.result = "none"

NextExport ==
    \/ SettingUp /\ \E chosen \in ChosenFiles : AddFiles(chosen)
    \/ SettingUp /\ ClearList
    \/ SettingUp /\ \E d \in {<<"out">>, <<"out", "..", "SRC">>, <<" ", "src2", "">>} : ExportPathEdited(d)
    \/ SettingUp /\ TextEdited(<<"W">>)
    \/ SettingUp /\ FormatChosen("JPEG")
    \/ SettingUp /\ \E rule \in {"prefix", "suffix"} : NameRuleChosen(rule)
    \/ SettingUp /\ PrefixEdited(<<"p", " ">>)
    \/ SettingUp /\ SuffixEdited(<<"s">>)
    \/ \E dirOk \in BOOLEAN, answerYes \in BOOLEAN : ProcessStart(dirOk, answerYes)
    \/ \E truetype \in BOOLEAN, writeOk \in BOOLEAN : ProcessStep(truetype, writeOk)
    \/ ProcessFinish

SpecExport == Init /\ [][NextExport]_vars

\* The items of the finished run that failed
FailedItems == {k \in 1..Len(run.log) : run.log[k] # "ok"}

OutputOf(p) ==
    out_path(p, run.a.export_dir, run.a.fmt, run.a.name_rule,
             run.a.prefix_text, run.a.suffix_text)

\* C4: when exactly one item k of a finished run failed, the paths were
\* processed in list order, there is exactly one failure entry and it names
\* item k, and every other item's output file was written and exists.
C4_OneFailureIsIsolated ==
    (run.result \in {"partial", "done"} /\ Cardinality(FailedItems) = 1) =>
        LET k == CHOOSE k \in FailedItems : TRUE IN
        /\ run.seen = run.paths
        /\ Len(run.failed) = 1
        /\ run.failed[1].path = run.paths[k]
        /\ \A j \in (1..Len(run.paths)) \ {k} :
              /\ OutputOf(run.paths[j]) \in run.written
              /\ \E o \in outputs : o.path = OutputOf(run.paths[j])

\* C4 witness: a run over three paths has finished; the middle one did not
\* decode and the other two were written.
C4_Witness ==
    /\ run.result = "partial"
    /\ run.log = <<"ok", "decode", "ok">>
    /\ Len(run.failed) = 1 /\ run.failed[1].path = run.paths[2]
    /\ Cardinality(run.written) = 2

\* The export directory of the last run requested is the directory of one
\* of its source paths
RunIntoSourceDir ==
    /\ run.result # "none"
    /\ \E i \in 1..Len(run.paths) : NormDir(run.a.export_dir) = NormDir(run.paths[i].dir)

\* C5: a run whose export directory is the directory of any source path is
\* rejected before the loop: no image is processed and no file is written.
C5_SourceDirRunIsRejected ==
    RunIntoSourceDir =>
        /\ run.result \in {"mkdir_failed", "source_dir"}
        /\ run.pc = "idle"
        /\ run.seen = <<>> /\ run.log = <<>>
        /\ run.written = {}

\* C5 witness: a run was rejected whose export directory, spelled with ".."
\* and in another case, is the directory of the first of three paths and
\* not of the last.
C5_Witness ==
    /\ run.result = "source_dir"
    /\ Len(run.paths) = 3
    /\ run.a.export_dir # NormDir(run.a.export_dir)
    /\ NormDir(run.a.export_dir) = NormDir(run.paths[1].dir)
    /\ NormDir(run.a.export_dir) # NormDir(run.paths[3].dir)
    /\ run.seen = <<>> /\ run.written = {}

----------------------------------------------------------------------------
(* Scale and opacity: controls, resize, template loads and export runs *)

NextScale ==
    \/ SettingUp /\ AddFiles(<<ImgA>>)
    \/ SettingUp /\ SelectImage(1)
    \/ SettingUp /\ TextEdited(<<"W">>)
    \/ SettingUp /\ \E v \in {PercentMin, PercentMax} : SizeSliderMoved(v)
    \/ SettingUp /\ SizeSpinEdited(120)
    \/ SettingUp /\ OpacityMoved(50)
    \/ SettingUp /\ Press("left", 660, 720)
    \/ SettingUp /\ \E pt \in {<<-40, 900>>, <<680, 720>>, <<900, -40>>} : Move(pt[1], pt[2])
    \/ SettingUp /\ Release("left")
    \/ SettingUp /\ \E i \in 1..2 : SelectTemplate(i)
    \/ SettingUp /\ LoadTemplate
    \/ SettingUp /\ ExportPathEdited(<<"out">>)
    \/ ProcessStart(TRUE, TRUE)
    \/ \E truetype \in BOOLEAN : ProcessStep(truetype, TRUE)
    \/ ProcessFinish

SpecScale == InitOn(HandDisk) /\ [][NextScale]_vars

\* C9: the stored scale is within [0.5, 3.0] and the stored opacity within
\* [0, 1]; every apply_watermark call of a run gets an opacity percent
\* within 0..100 and draws with a scale factor within [0.5, 3.0].
C9_ScaleAndOpacityInRange ==
    /\ ScaleMin <= ui.scale /\ ui.scale <= ScaleMax
    /\ 0 <= ui.opacity /\ ui.opacity <= OpacityOne
    /\ run.result # "none" =>
          /\ run.a.opacity_percent \in OpacityMin..OpacityMax
          /\ ScaleMin <= run.a.scale /\ run.a.scale <= ScaleMax
    /\ render.called =>
          /\ render.opacity_percent \in OpacityMin..OpacityMax
          /\ ScaleMin <= render.scale /\ render.scale <= ScaleMax
          /\ render.truetype => render.font_px <= Max(8, 3 * Max(16, render.W \div 20))

\* C9 witness: a template whose scale (4.0) and opacity (150) are above the
\* ranges was loaded, the scale is 3.0 and the opacity 1, and a run has
\* called apply_watermark with them.
C9_Witness ==
    /\ ui.scale = ScaleMax /\ ui.opacity = OpacityOne
    /\ ui.opacity_slider = OpacityMax
    /\ run.result = "done" /\ run.a.scale = ScaleMax
    /\ render.called /\ render.scale = ScaleMax /\ render.opacity_percent = OpacityMax
    /\ render.truetype

----------------------------------------------------------------------------
(* The placement machine: presses, moves and releases over an image that    *)
(* fills the preview (ImgA) and one shown with bars above and below (ImgB)  *)

\* Pointer positions: on the handle of a one-character text at the default
\* anchor and scale 1.0 (ImgA: 660, 720; ImgB: 660, 580), inside the image,
\* in the bar above ImgB, outside the widget, and near the right edge
NextPointer ==
    \/ AddFiles(<<ImgA, ImgB, ImgC>>)
    \/ \E i \in 1..MaxImages : SelectImage(i)
    \/ TextEdited(<<"W">>)
    \/ \E b \in Buttons, pt \in {<<660, 720>>, <<660, 580>>, <<400, 400>>, <<400, 100>>} :
          Press(b, pt[1], pt[2])
    \/ \E pt \in {<<-40, 900>>, <<400, 400>>, <<680, 560>>, <<792, 100>>} : Move(pt[1], pt[2])
    \/ \E b \in Buttons : Release(b)
    \/ PresetClicked(<<(98 * NormOne) \div 100, (98 * NormOne) \div 100>>)

SpecPointer == Init /\ [][NextPointer]_vars

\* The press at (ev'.x, ev'.y) is inside the resize handle, or inside the
\* image display rectangle, as the preview shows them before the press
PressInHandle == ~isNull(ui.pixmap) /\ RectContains(HandleRect(ui), ev'.x, ev'.y)
PressInImage == ~isNull(ui.pixmap) /\ RectContains(image_draw_rect(ui), ev'.x, ev'.y)

\* C11: from Idle a press leads to Resizing only inside the resize handle,
\* to Dragging only inside the image display rectangle and outside the
\* handle, and leaves the machine Idle anywhere else.
C11_PressFromIdle ==
    [][(ev'.op = "press" /\ Mode(ui) = "idle") =>
          /\ Mode(ui') \in {"idle", "dragging", "resizing"}
          /\ Mode(ui') = "resizing" => PressInHandle
          /\ Mode(ui') = "dragging" => (PressInImage /\ ~PressInHandle)
          /\ (~PressInHandle /\ ~PressInImage) => Mode(ui') = "idle"]_vars

----------------------------------------------------------------------------
(* Export runs: the buttons and the output files *)

ButtonsEnabled == ui.btn_process /\ ui.btn_add_files /\ ui.btn_add_dir /\ ui.btn_clear
ButtonsDisabled == ~ui.btn_process /\ ~ui.btn_add_files /\ ~ui.btn_add_dir /\ ~ui.btn_clear

\* C12: whenever process_images is not running (it has returned, by any
\* path) the four buttons are enabled, and from before the first image is
\* processed until after the last one they are disabled.
C12_ButtonsFollowTheRun ==
    /\ run.pc = "idle" => ButtonsEnabled
    /\ run.pc = "loop" => ButtonsDisabled

\* C12 witness: a run in which every item failed has returned and the
\* buttons are enabled.
C12_Witness ==
    /\ run.pc = "idle" /\ run.result = "partial"
    /\ Len(run.paths) >= 2 /\ Len(run.failed) = Len(run.paths)
    /\ ButtonsEnabled

\* The file name the naming rule gives a source path
StemOf(p) == SubSeq(p.base, 1, Len(p.base) - 1)
ExpectedStem(p) ==
    IF run.a.name_rule = "prefix" /\ run.a.prefix_text # <<>>
    THEN run.a.prefix_text \o StemOf(p)
    ELSE IF run.a.name_rule = "suffix" /\ run.a.suffix_text # <<>>
    THEN StemOf(p) \o run.a.suffix_text
    ELSE StemOf(p)

\* C13: every output file is named stem(source) with the prefix or suffix
\* the rule asks for, followed by .png for PNG and .jpg for JPEG, and its
\* extension matches the format its data is saved in.
C13_OutputNameFollowsRuleAndFormat ==
    \A o \in outputs :
        /\ o.path.base = Append(ExpectedStem(o.src),
                                IF run.a.fmt = "PNG" THEN ".png" ELSE ".jpg")
        /\ run.a.fmt \in {"PNG", "JPEG"}
        /\ o.saved_as = run.a.fmt
        /\ (o.saved_as = "PNG") <=> (o.path.base[Len(o.path.base)] = ".png")
        /\ (o.saved_as = "JPEG") <=> (o.path.base[Len(o.path.base)] = ".jpg")

\* C13 witness: b.PNG was exported as JPEG under the prefix rule: p + b + .jpg
C13_Witness ==
    \E o \in outputs :
        /\ o.src = ImgB
        /\ o.saved_as = "JPEG"
        /\ o.path.base = <<"p", "b", ".jpg">>

\* C14: every call draws the text at max(8, max(16, W / 20) * scale) pixels,
\* whichever font it selected.
C14_FontSizeFollowsScale ==
    render.called =>
        render.font_px = Max(8, MulDiv(Max(16, render.W \div 20), render.scale, ScaleOne))

----------------------------------------------------------------------------
(* The template list *)

\* The names save_template has saved and delete has not deleted since
NamesKept == {<<n>> : n \in {m \in NameTokens : saved[template_path(<<m>>)].named}}

\* C15: the template list is, in lexicographic order, the names saved and
\* not since deleted, and never holds the last-used record's name.
C15_ListIsTheNamesKept ==
    session = "running" =>
        /\ templates_combo.items = SortNames(NamesKept)
        /\ \A i \in 1..Len(templates_combo.items) :
              template_path(templates_combo.items[i]) # LastSettingsFile

----------------------------------------------------------------------------
(* Loading records that miss fields *)

\* The values of the records: RecMixed has every value in range, with a size
\* percent (150) and a scale (2.0) that disagree; RecWild has values outside
\* the ranges, a format and a naming rule the program does not know, and a
\* scale (1.234) that is not a whole percent.
RecMixed ==
    [EmptyRecord EXCEPT !.text = <<"W">>, !.opacity = 40, !.size_percent = 150,
                        !.format = "JPEG", !.name_rule = "suffix",
                        !.prefix = <<"p">>, !.suffix = <<"s">>,
                        !.norm_x = NormOne \div 4, !.norm_y = NormOne \div 2,
                        !.scale = 2 * ScaleOne, !.export_dir = <<"out">>]
RecWild ==
    [EmptyRecord EXCEPT !.text = <<" ", "W">>, !.opacity = 150, !.size_percent = 40,
                        !.format = "GIF", !.name_rule = "other",
                        !.prefix = <<"p", " ">>, !.suffix = <<" ">>,
                        !.norm_x = -NormOne, !.norm_y = 2 * NormOne,
                        !.scale = 1234 * (ScaleOne \div 1000), !.export_dir = <<"Out">>]

\* t1.json holds one of the records with any subset of its fields
InitLoad ==
    \E present \in SUBSET Fields, v \in {RecMixed, RecWild} :
        InitOn([f \in TemplateFiles |->
                   IF f = template_path(<<"t1">>) THEN Json([v EXCEPT !.present = present])
                   ELSE Absent])

NextLoad ==
    \/ TextEdited(<<"V">>)
    \/ SizeSpinEdited(250)
    \/ FormatChosen("JPEG")
    \/ LoadTemplate

SpecLoad == InitLoad /\ [][NextLoad]_vars

\* The record the load step reads
Loaded == files[template_path(ev'.name)].rec

\* The fields that have nothing to do with the size: each one present ends
\* with the record's value, each one missing with its default
PlainFieldsFollowRecord ==
    /\ ui'.input_text = IF "text" \in Loaded.present THEN Loaded.text ELSE <<>>
    /\ ui'.opacity_slider = IF "opacity" \in Loaded.present
                            THEN Clamp(Loaded.opacity, 0, 100) ELSE 100
    /\ ui'.format_combo = IF "format" \in Loaded.present
                          THEN (IF Loaded.format \in {"PNG", "JPEG"}
                                THEN Loaded.format ELSE ui.format_combo)
                          ELSE "PNG"
    /\ ui'.name_rule = IF "name_rule" \in Loaded.present
                          /\ Loaded.name_rule \in {"prefix", "suffix"}
                       THEN Loaded.name_rule ELSE "keep"
    /\ ui'.input_prefix = IF "prefix" \in Loaded.present THEN Loaded.prefix ELSE <<>>
    /\ ui'.input_suffix = IF "suffix" \in Loaded.present THEN Loaded.suffix ELSE <<>>
    /\ ui'.export_path = IF "export_dir" \in Loaded.present THEN Loaded.export_dir ELSE <<>>
    /\ ui'.norm_x = IF "norm_x" \in Loaded.present
                    THEN Clamp(Loaded.norm_x, 0, NormOne) ELSE (8 * NormOne) \div 10
    /\ ui'.norm_y = IF "norm_y" \in Loaded.present
                    THEN Clamp(Loaded.norm_y, 0, NormOne) ELSE (85 * NormOne) \div 100

\* C16 as stated: the load succeeds and every field, size percent and scale
\* included, ends with the record's value (clamped) when present and with
\* its default when missing.
C16_EveryFieldIndependent ==
    [][ev'.op = "load_template" =>
          /\ ev'.ok
          /\ PlainFieldsFollowRecord
          /\ ui'.size_spin = IF "size_percent" \in Loaded.present
                             THEN Clamp(Loaded.size_percent, 50, 300) ELSE 100
          /\ ui'.scale = IF "scale" \in Loaded.present
                         THEN Clamp(Loaded.scale, ScaleOne \div 2, 3 * ScaleOne)
                         ELSE ScaleOne]_vars

\* The scale a record asks for: its scale, else its size percent, else 1.0
ScaleAsked ==
    Clamp(IF "scale" \in Loaded.present THEN Loaded.scale
          ELSE IF "size_percent" \in Loaded.present
               THEN Loaded.size_percent * (ScaleOne \div 100)
          ELSE ScaleOne,
          ScaleOne \div 2, 3 * ScaleOne)

\* C16 amended: the load succeeds; the fields other than size percent and
\* scale are handled independently (an unknown format leaves the format as
\* it was, an unknown naming rule selects keep); the scale ends within half
\* a percent of the scale asked for, and exactly there (within 1e-6) when
\* that is a whole percent; size percent, slider and spin box end at
\* round(100 * scale).
C16_SizeAndScaleAreOneQuantity ==
    [][ev'.op = "load_template" =>
          /\ ev'.ok
          /\ PlainFieldsFollowRecord
          /\ Abs(ui'.scale - ScaleAsked) <= ScaleOne \div 200 + ScaleOne \div 1000000
          /\ (ScaleAsked % (ScaleOne \div 100) = 0)
                => Abs(ui'.scale - ScaleAsked) <= ScaleOne \div 1000000
          /\ ui'.size_spin = RoundHalfEven(ui'.scale * 100, ScaleOne)
          /\ ui'.size_slider = ui'.size_spin]_vars

\* C16 witness: a record with a size percent of 150 and a scale of 2.0 but
\* no text and no opacity has been loaded over an edited text: the text and
\* the opacity are the defaults, the scale is 2.0 and the size percent 200.
C16_Witness ==
    /\ ev.op = "load_template" /\ ev.ok
    /\ LET r == files[template_path(ev.name)].rec IN
       /\ {"size_percent", "scale"} \subseteq r.present
       /\ r.present \cap {"text", "opacity"} = {}
       /\ r.size_percent = 150 /\ r.scale = 2 * ScaleOne
    /\ ui.input_text = <<>> /\ ui.opacity_slider = 100
    /\ ui.scale = 2 * ScaleOne /\ ui.size_spin = 200

----------------------------------------------------------------------------
(* Adding folders and dropping files on the list *)

\* os.walk yields the files of the two source folders in this order
collect_images_from_folder(folder) ==
    FilterImages(CASE folder = <<"src">> -> <<ImgA, ImgD, NotImg>>
                   [] folder = <<"src2">> -> <<ImgB, ImgC, ImgE>>
                   [] OTHER -> <<>>)

\* add_folder: the dialog returns `folder`, empty when it is cancelled
AddFolder(folder) ==
    /\ Ready
    /\ ui.btn_add_dir
    /\ LET added == IF folder = <<>> THEN list_widget
                    ELSE add_image_items(list_widget, Range(list_widget),
                                         collect_images_from_folder(folder))
       IN  /\ Len(added) <= MaxImages
           /\ list_widget' = added
    /\ ev' = Event("add_folder", "", folder, TRUE)
    /\ ui' = Begin(ui)
    /\ UNCHANGED <<templates_combo, files, outputs, run, session, saved, render>>

\* The loop of dropEvent over the urls; a url with no base name is a folder
RECURSIVE DroppedPaths(_)
DroppedPaths(urls) ==
    IF urls = <<>> THEN <<>>
    ELSE LET local == Head(urls)
         IN  (IF local.base = <<>> THEN collect_images_from_folder(local.dir)
              ELSE IF is_image_file(local) THEN <<local>>
              ELSE <<>>) \o DroppedPaths(Tail(urls))

\* ImageListWidget.dropEvent with urls in the mime data
Drop(urls) ==
    /\ Ready
    /\ LET added == add_image_items(list_widget, Range(list_widget), DroppedPaths(urls))
       IN  /\ Len(added) <= MaxImages
           /\ list_widget' = added
    /\ ev' = Event("drop", "", <<>>, TRUE)
    /\ ui' = Begin(ui)
    /\ UNCHANGED <<templates_combo, files, outputs, run, session, saved, render>>

NextList ==
    \/ \E chosen \in ChosenFiles : AddFiles(chosen)
    \/ \E folder \in {<<>>, <<"src">>, <<"src2">>} : AddFolder(folder)
    \/ \E urls \in {<<ImgB, NotImg>>, <<ImgE, ImgB>>, <<ImgA, ImgA>>,
                     <<[dir |-> <<"src">>, base |-> <<>>], ImgA>>} : Drop(urls)
    \/ ClearList
    \/ \E i \in 1..MaxImages : SelectImage(i)

SpecList == Init /\ [][NextList]_vars

NoPathTwice(items) == \A i, j \in 1..Len(items) : items[i] = items[j] => i = j
IsPrefix(a, b) == Len(a) <= Len(b) /\ SubSeq(b, 1, Len(a)) = a

\* C17: after an add operation (add files, add folder, drop) the list holds
\* no path twice, holds only paths with a supported extension, and is the
\* list before it followed by the paths that are new, in their order.
C17_ListHasNoPathTwice ==
    [][ev'.op \in {"add_files", "add_folder", "drop"} =>
          /\ NoPathTwice(list_widget')
          /\ \A i \in 1..Len(list_widget') : is_image_file(list_widget'[i])
          /\ IsPrefix(list_widget, list_widget')]_vars

----------------------------------------------------------------------------
(* The preset buttons *)

PresetCoordinates == {(2 * NormOne) \div 100, NormOne \div 2, (98 * NormOne) \div 100}

\* C18: a click on a preset button, in any state of the placement machine,
\* sets the anchor to the button's coordinates, each 0.02, 0.5 or 0.98, and
\* changes nothing else of the preview or the controls: not the dragging and
\* resizing flags, not the scale, the opacity or the text.
C18_PresetSetsOnlyTheAnchor ==
    [][ev'.op = "preset" =>
          /\ ev'.x \in PresetCoordinates /\ ev'.y \in PresetCoordinates
          /\ ui'.norm_x = ev'.x /\ ui'.norm_y = ev'.y
          /\ ui'.dragging = ui.dragging /\ ui'.resizing = ui.resizing
          /\ ui'.scale = ui.scale /\ ui'.opacity = ui.opacity
          /\ ui'.wm_text = ui.wm_text
          /\ ui' = [ui EXCEPT !.norm_x = ev'.x, !.norm_y = ev'.y, !.sig = 0]]_vars

\* C18 witness: the top right preset was clicked while the machine was
\* resizing; the anchor is (0.98, 0.02) and the machine is still resizing.
C18_Witness ==
    /\ ev.op = "preset" /\ ev.mode = "resizing"
    /\ ui.resizing /\ ~ui.dragging
    /\ ui.norm_x = (98 * NormOne) \div 100 /\ ui.norm_y = (2 * NormOne) \div 100

----------------------------------------------------------------------------
(* Pointer moves while resizing and while dragging *)

\* (px - originX) / baseWidth clamped to [0.5, 3.0], with originX the x of
\* the text as paintEvent draws it
ScaleFromPaintedText(s, px) ==
    LET base_width == Max(1, horizontalAdvance(s.wm_text,
                                               BaseFontSize(image_draw_rect(s).width)))
        d == px - TextBox(s).x
    IN  IF d >= 3 * base_width THEN ScaleMax
        ELSE IF d <= 0 THEN ScaleMin
        ELSE Clamp(FloorDiv(d * ScaleOne, base_width), ScaleMin, ScaleMax)

\* C19: while resizing (an image shown), a pointer-move to px sets the scale
\* to clamp((px - originX) / baseWidth, 0.5, 3.0), to the nearest percent,
\* where originX is the x at which the preview paints the text.
C19_ResizeMeasuresFromPaintedText ==
    [][(ev'.op = "move" /\ Mode(ui) = "resizing" /\ ~isNull(ui.pixmap)) =>
          Abs(ui'.scale - ScaleFromPaintedText(ui, ev'.x))
             <= ScaleOne \div 200 + ScaleOne \div 1000000]_vars

\* The anchor a pointer at (px, py) stands for
toNormalized(s, px, py) ==
    LET r == image_draw_rect(s) IN
    <<Clamp(FloorDiv((px - r.left) * NormOne, r.width), 0, NormOne),
      Clamp(FloorDiv((py - r.top) * NormOne, r.height), 0, NormOne)>>

----------------------------------------------------------------------------
(* Pointer events without a surface to place on *)

\* No image is loaded, or the display rectangle has no width or no height
Degenerate(s) ==
    \/ isNull(s.pixmap)
    \/ image_draw_rect(s).width <= 0
    \/ image_draw_rect(s).height <= 0

\* C21: while no image is loaded or the display rectangle has zero width or
\* height, a press, a move or a release changes neither the anchor nor the
\* scale, and a press leaves an idle machine idle.
C21_NothingToPlaceOn ==
    [][(ev'.op \in {"press", "move", "release"} /\ Degenerate(ui)) =>
          /\ ui'.norm_x = ui.norm_x /\ ui'.norm_y = ui.norm_y
          /\ ui'.scale = ui.scale
          /\ (ev'.op = "press" /\ Mode(ui) = "idle") => Mode(ui') = "idle"]_vars

----------------------------------------------------------------------------
(* Export runs with names that share a stem or hold path separators *)

NextNames ==
    \/ SettingUp /\ \E chosen \in {<<ImgA, ImgF>>, <<ImgB>>} : AddFiles(chosen)
    \/ SettingUp /\ ExportPathEdited(<<"out">>)
    \/ SettingUp /\ FormatChosen("JPEG")
    \/ SettingUp /\ \E rule \in {"prefix", "suffix"} : NameRuleChosen(rule)
    \/ SettingUp /\ \E t \in {<<"p">>, <<"..", "/", "src", "/">>, <<"x", "/">>} : PrefixEdited(t)
    \/ SettingUp /\ SuffixEdited(<<"s">>)
    \/ \E dirOk \in BOOLEAN, answerYes \in BOOLEAN : ProcessStart(dirOk, answerYes)
    \/ \E truetype \in BOOLEAN, writeOk \in BOOLEAN : ProcessStep(truetype, writeOk)
    \/ ProcessFinish

SpecNames == Init /\ [][NextNames]_vars

\* The file a source path of the list names
SourceFile(p) == [dir |-> NormDir(p.dir), base |-> p.base]

\* C22: every file an export run has written lies directly inside the
\* export directory and is not the file of any source image of the list.
C22_NoOutputOnASource ==
    \A o \in outputs :
        /\ FileAt(o.path).dir = NormDir(run.a.export_dir)
        /\ \A i \in 1..Len(list_widget) : FileAt(o.path) # SourceFile(list_widget[i])

\* C23: after a run over distinct source paths in which no item failed,
\* there are as many output files as items, and the output of every item is
\* still there.
C23_OneOutputPerSource ==
    (run.pc = "idle" /\ run.result = "done" /\ NoPathTwice(run.paths)) =>
        /\ Cardinality({FileAt(q) : q \in run.written}) = Len(run.paths)
        /\ \A i \in 1..Len(run.paths) : \E o \in outputs : o.src = run.paths[i]

----------------------------------------------------------------------------
(* The size controls and the preview's scale *)

\* Every way the scale changes: the slider, the spin box, a resize of a
\* two-character text (40 px wide at scale 1.0 on ImgA, so that moves give
\* scales between two whole percents) and template loads
NextSize ==
    \/ AddFiles(<<ImgA>>)
    \/ SelectImage(1)
    \/ TextEdited(<<"W", "W">>)
    \/ \E v \in {PercentMin, PercentMax} : SizeSliderMoved(v)
    \/ SizeSpinEdited(120)
    \/ Press("left", 680, 720)
    \/ \E pt \in {<<-40, 900>>, <<681, 720>>, <<683, 720>>} : Move(pt[1], pt[2])
    \/ Release("left")
    \/ \E i \in 1..2 : SelectTemplate(i)
    \/ LoadTemplate

SpecSize == InitOn(StoreDisk) /\ [][NextSize]_vars

\* C25 as stated: once the handlers have run, the size slider and the size
\* spin box hold the same percent and the preview's scale is exactly that
\* percent divided by 100.
C25_ScaleIsThePercentShown ==
    /\ ui.size_slider = ui.size_spin
    /\ ui.scale = ui.size_spin * (ScaleOne \div 100)

\* C25 amended: the slider and the spin box hold the same percent, and it is
\* the preview's scale times 100, rounded: the scale is within half a
\* percent of the percent shown.
C25_PercentShownIsTheScaleRounded ==
    /\ ui.size_slider = ui.size_spin
    /\ ui.size_spin = RoundHalfEven(ui.scale * 100, ScaleOne)
    /\ Abs(ui.scale - ui.size_spin * (ScaleOne \div 100)) <= ScaleOne \div 200

\* C25 witness: a resize move has left the scale at 1.025 while the slider
\* and the spin box show 102.
C25_Witness ==
    /\ ev.op = "move" /\ ev.mode = "resizing"
    /\ ui.scale = 1025 * (ScaleOne \div 1000)
    /\ ui.size_slider = 102 /\ ui.size_spin = 102

\* C26: the chain of signals a handler starts ends: it never grows to the
\* bound on its length, so no signal is left to handle.
C26_SignalChainEnds == ~ui.overflow /\ ui.sig < MaxSignals

\* C26 witness: a resize move has started a chain of four signals or more
\* (scaleChanged, the slider's and the spin box's valueChanged, scaleChanged
\* again), which has ended.
C26_Witness ==
    /\ ev.op = "move" /\ ev.mode = "resizing"
    /\ ui.sig >= 4 /\ ~ui.overflow

----------------------------------------------------------------------------
(* The two flags of the placement machine *)

\* C24: the dragging flag and the resizing flag are never both set.
C24_OneStateAtATime == ~(ui.dragging /\ ui.resizing)

====
